---- MODULE Spec2Model ----
(***************************************************************************)
(* Model of the AI JSON editor.                                            *)
(*                                                                         *)
(*   app.py   the LangGraph pipeline  generate_patch -> judge -> [apply]   *)
(*            whose apply node calls jsonpatch.apply_patch(in_place=False) *)
(*   test.py  the MCP variant  generate -> validate -> apply  with         *)
(*            unconditional edges                                          *)
(*                                                                         *)
(* JSON values are tagged records, JSON Pointers are sequences of          *)
(* reference tokens, Python dicts are functions from keys to values.       *)
(*                                                                         *)
(* app.py imports jsonpatch and jsonpointer; the operators named after     *)
(* their classes and methods follow python-jsonpatch 1.33 and              *)
(* python-json-pointer 2.4, exception classes and messages included.       *)
(***************************************************************************)
EXTENDS Integers, Sequences, FiniteSets, TLC

(***************************************************************************)
(* JSON values                                                             *)
(***************************************************************************)
Str(s) == [t |-> "str", s |-> s]
Num(n) == [t |-> "num", n |-> n]
Arr(a) == [t |-> "arr", a |-> a]
Obj(o) == [t |-> "obj", o |-> o]

\* what JsonPointer.walk returns for the token "-" on a sequence
EndOfList == [t |-> "eol"]

EmptyMap == [k \in {} |-> Num(0)]

\* the characters of the strings the model uses (a Python str is a Sequence)
CharTable ==
  [Alice |-> <<"A", "l", "i", "c", "e">>,
   Seoul |-> <<"S", "e", "o", "u", "l">>,
   Bob |-> <<"B", "o", "b">>]

CharsOf(s) == IF s \in DOMAIN CharTable THEN CharTable[s] ELSE <<s>>

\* the items of a Python Sequence (list or str)
Items(v) ==
  IF v.t = "arr" THEN v.a
  ELSE [i \in 1..Len(CharsOf(v.s)) |-> Str(CharsOf(v.s)[i])]

IsMapping(v) == v.t = "obj"
IsSequence(v) == v.t \in {"arr", "str"}
IsMutableSequence(v) == v.t = "arr"

(***************************************************************************)
(* jsonpointer: reference tokens and their resolution                      *)
(***************************************************************************)
\* array index tokens, matched by _RE_ARRAY_INDEX and converted by int()
IndexTokens == <<"0", "1", "2", "3", "4", "5">>

IsIndexToken(tok) == \E i \in 1..Len(IndexTokens) : IndexTokens[i] = tok

ParseIndex(tok) == (CHOOSE i \in 1..Len(IndexTokens) : IndexTokens[i] = tok) - 1

\* a resolved part: a mapping key, a sequence index, "-" or None
KeyPart(s) == [k |-> "key", s |-> s]
IdxPart(i) == [k |-> "idx", i |-> i]
EndPart == [k |-> "end"]
NonePart == [k |-> "none"]

\* a local name for a value: body(x) with x the value of e
Bind(e, body(_)) == CHOOSE y \in {body(x) : x \in {e}} : TRUE

\* an exception raised during pointer resolution
Raise(exc, msg) == [ok |-> FALSE, exc |-> exc, msg |-> msg]

\* JsonPointer.get_part
get_part(doc, part) ==
  IF IsMapping(doc) THEN [ok |-> TRUE, part |-> KeyPart(part)]
  ELSE IF IsSequence(doc) THEN
    IF part = "-" THEN [ok |-> TRUE, part |-> EndPart]
    ELSE IF ~IsIndexToken(part)
      THEN Raise("JsonPointerException", "is not a valid sequence index")
      ELSE [ok |-> TRUE, part |-> IdxPart(ParseIndex(part))]
  ELSE Raise("JsonPointerException", "does not support indexing")

\* JsonPointer.walk
walk(doc, part) ==
  Bind(get_part(doc, part), LAMBDA p :
    IF ~p.ok THEN p
    ELSE IF IsSequence(doc) THEN
      IF p.part.k = "end" THEN [ok |-> TRUE, v |-> EndOfList]
      ELSE IF p.part.i < Len(Items(doc))
        THEN [ok |-> TRUE, v |-> Items(doc)[p.part.i + 1]]
        ELSE Raise("JsonPointerException", "index is out of bounds")
    ELSE IF part \in DOMAIN doc.o
      THEN [ok |-> TRUE, v |-> doc.o[part]]
      ELSE Raise("JsonPointerException", "member not found"))

RECURSIVE walk_all(_, _)
\* the loop of JsonPointer.to_last over parts[:-1]
walk_all(doc, parts) ==
  IF parts = <<>> THEN [ok |-> TRUE, v |-> doc]
  ELSE Bind(walk(doc, Head(parts)), LAMBDA w :
         IF ~w.ok THEN w ELSE walk_all(w.v, Tail(parts)))

Front(s) == SubSeq(s, 1, Len(s) - 1)
Last(s) == s[Len(s)]

\* JsonPointer.to_last: the parent container and the resolved last part
to_last(doc, parts) ==
  IF parts = <<>> THEN [ok |-> TRUE, sub |-> doc, part |-> NonePart]
  ELSE Bind(walk_all(doc, Front(parts)), LAMBDA w :
         IF ~w.ok THEN w
         ELSE Bind(get_part(w.v, Last(parts)), LAMBDA p :
                IF ~p.ok THEN p
                ELSE [ok |-> TRUE, sub |-> w.v, part |-> p.part]))

\* JsonPointer.contains: ptr is a prefix of self
contains(self, ptr) ==
  /\ Len(ptr) <= Len(self)
  /\ SubSeq(self, 1, Len(ptr)) = ptr

(***************************************************************************)
(* In-place mutation of the container a pointer resolved to: the document  *)
(* with the value at parts replaced by new.                                *)
(***************************************************************************)
RECURSIVE Put(_, _, _)
Put(doc, parts, new) ==
  IF parts = <<>> THEN new
  ELSE IF doc.t = "obj" THEN
    Obj([k \in DOMAIN doc.o |->
           IF k = Head(parts) THEN Put(doc.o[k], Tail(parts), new) ELSE doc.o[k]])
  ELSE
    Arr([i \in 1..Len(doc.a) |->
           IF i = ParseIndex(Head(parts)) + 1
             THEN Put(doc.a[i], Tail(parts), new) ELSE doc.a[i]])

\* dict[key] = v
SetKey(o, key, v) == [k \in DOMAIN o \cup {key} |-> IF k = key THEN v ELSE o[k]]
\* del dict[key]
DelKey(o, key) == [k \in DOMAIN o \ {key} |-> o[k]]
\* list.insert(i, v) with a 0-based i <= len
InsertAt(a, i, v) == SubSeq(a, 1, i) \o <<v>> \o SubSeq(a, i + 1, Len(a))
\* del list[i] with a 0-based i < len
DeleteAt(a, i) == SubSeq(a, 1, i) \o SubSeq(a, i + 2, Len(a))
\* list[i] = v with a 0-based i < len
ReplaceAt(a, i, v) == [j \in 1..Len(a) |-> IF j = i + 1 THEN v ELSE a[j]]

\* What an operation returns.  doc is the returned document, left is the
\* content of the object that was passed in as the operation left it, and
\* rebound tells whether the returned document is a different object.
\* Mutated: the operation changed the object it was given and returned it.
Mutated(doc) == [ok |-> TRUE, doc |-> doc, rebound |-> FALSE, left |-> doc]
\* Rebound: the operation returned the operand value as the new root.
Rebound(value, obj) == [ok |-> TRUE, doc |-> value, rebound |-> TRUE, left |-> obj]
\* an exception leaving an operation; doc is the document object as the
\* operation left it
Fail(exc, msg, doc) == [ok |-> FALSE, exc |-> exc, msg |-> msg, doc |-> doc]

(***************************************************************************)
(* jsonpatch: the six operations                                           *)
(***************************************************************************)
\* AddOperation.apply
AddOperation(obj, path, value) ==
  Bind(to_last(obj, path), LAMBDA tl :
    IF ~tl.ok THEN Fail(tl.exc, tl.msg, obj)
    ELSE IF IsMutableSequence(tl.sub) THEN
      IF tl.part.k = "end"
        THEN Mutated(Put(obj, Front(path), Arr(Append(tl.sub.a, value))))
      ELSE IF tl.part.k = "none"
        THEN Fail("TypeError", "'>' not supported between NoneType and int", obj)
      ELSE IF tl.part.i > Len(tl.sub.a)
        THEN Fail("JsonPatchConflict", "can't insert outside of list", obj)
      ELSE Mutated(Put(obj, Front(path), Arr(InsertAt(tl.sub.a, tl.part.i, value))))
    ELSE IF IsMapping(tl.sub) THEN
      IF tl.part.k = "none"
        THEN Rebound(value, obj)
        ELSE Mutated(Put(obj, Front(path), Obj(SetKey(tl.sub.o, tl.part.s, value))))
    ELSE IF tl.part.k = "none"
      THEN Fail("TypeError", "invalid document type", obj)
      ELSE Fail("JsonPatchConflict", "unable to fully resolve json pointer", obj))

\* RemoveOperation.apply that ignores an index past the end of the list
RemoveOperation_mut(obj, path) ==
  Bind(to_last(obj, path), LAMBDA tl :
    IF ~tl.ok THEN Fail(tl.exc, tl.msg, obj)
    ELSE IF IsSequence(tl.sub) /\ tl.part.k # "idx"
      THEN Fail("JsonPointerException", "invalid array index", obj)
    ELSE IF IsMapping(tl.sub) THEN
      IF tl.part.k = "key" /\ tl.part.s \in DOMAIN tl.sub.o
        THEN Mutated(Put(obj, Front(path), Obj(DelKey(tl.sub.o, tl.part.s))))
        ELSE Fail("JsonPatchConflict", "can't remove a non-existent object", obj)
    ELSE IF IsMutableSequence(tl.sub) THEN
      IF tl.part.i < Len(tl.sub.a)
        THEN Mutated(Put(obj, Front(path), Arr(DeleteAt(tl.sub.a, tl.part.i))))
        ELSE Mutated(obj)
    ELSE Fail("TypeError", "object doesn't support item deletion", obj))

\* RemoveOperation.apply
RemoveOperation(obj, path) ==
  Bind(to_last(obj, path), LAMBDA tl :
    IF ~tl.ok THEN Fail(tl.exc, tl.msg, obj)
    ELSE IF IsSequence(tl.sub) /\ tl.part.k # "idx"
      THEN Fail("JsonPointerException", "invalid array index", obj)
    ELSE IF IsMapping(tl.sub) THEN
      IF tl.part.k = "key" /\ tl.part.s \in DOMAIN tl.sub.o
        THEN Mutated(Put(obj, Front(path), Obj(DelKey(tl.sub.o, tl.part.s))))
        ELSE Fail("JsonPatchConflict", "can't remove a non-existent object", obj)
    ELSE IF IsMutableSequence(tl.sub) THEN
      IF tl.part.i < Len(tl.sub.a)
        THEN Mutated(Put(obj, Front(path), Arr(DeleteAt(tl.sub.a, tl.part.i))))
        ELSE Fail("JsonPatchConflict", "can't remove a non-existent object", obj)
    ELSE Fail("TypeError", "object doesn't support item deletion", obj))

\* ReplaceOperation.apply
ReplaceOperation(obj, path, value) ==
  Bind(to_last(obj, path), LAMBDA tl :
    IF ~tl.ok THEN Fail(tl.exc, tl.msg, obj)
    ELSE IF tl.part.k = "none" THEN Rebound(value, obj)
    ELSE IF tl.part.k = "end"
      THEN Fail("InvalidJsonPatch", "'path' with '-' can't be applied to 'replace'", obj)
    ELSE IF IsMutableSequence(tl.sub) THEN
      IF tl.part.i >= Len(tl.sub.a)
        THEN Fail("JsonPatchConflict", "can't replace outside of list", obj)
        ELSE Mutated(Put(obj, Front(path), Arr(ReplaceAt(tl.sub.a, tl.part.i, value))))
    ELSE IF IsMapping(tl.sub) THEN
      IF tl.part.s \notin DOMAIN tl.sub.o
        THEN Fail("JsonPatchConflict", "can't replace a non-existent object", obj)
        ELSE Mutated(Put(obj, Front(path), Obj(SetKey(tl.sub.o, tl.part.s, value))))
    ELSE Fail("JsonPatchConflict", "unable to fully resolve json pointer", obj))

\* TestOperation.apply
TestOperation(obj, path, value) ==
  Bind(to_last(obj, path), LAMBDA tl :
    IF ~tl.ok THEN Fail("JsonPatchTestFailed", tl.msg, obj)
    ELSE Bind(IF tl.part.k = "none" THEN [ok |-> TRUE, v |-> tl.sub]
              ELSE walk(tl.sub, Last(path)), LAMBDA w :
           IF ~w.ok THEN Fail("JsonPatchTestFailed", w.msg, obj)
           ELSE IF w.v # value
             THEN Fail("JsonPatchTestFailed", "is not equal to tested value", obj)
             ELSE Mutated(obj)))

\* subobj[part] as CopyOperation and MoveOperation read the source value
GetItem(sub, part) ==
  IF IsMapping(sub) THEN
    IF part.k = "key" /\ part.s \in DOMAIN sub.o
      THEN [ok |-> TRUE, v |-> sub.o[part.s]]
      ELSE Raise("JsonPatchConflict", "KeyError")
  ELSE IF IsSequence(sub) THEN
    IF part.k # "idx" THEN Raise("TypeError", "indices must be integers")
    ELSE IF part.i < Len(Items(sub))
      THEN [ok |-> TRUE, v |-> Items(sub)[part.i + 1]]
      ELSE Raise("JsonPatchConflict", "IndexError")
  ELSE Raise("TypeError", "object is not subscriptable")

\* CopyOperation.apply
CopyOperation(obj, from, path) ==
  Bind(to_last(obj, from), LAMBDA tl :
    IF ~tl.ok THEN Fail(tl.exc, tl.msg, obj)
    ELSE Bind(GetItem(tl.sub, tl.part), LAMBDA g :
           IF ~g.ok THEN Fail(g.exc, g.msg, obj)
           ELSE AddOperation(obj, path, g.v)))

\* MoveOperation.apply that adds at path before it removes at from
MoveOperation_mut(obj, from, path) ==
  Bind(to_last(obj, from), LAMBDA tl :
    IF ~tl.ok THEN Fail(tl.exc, tl.msg, obj)
    ELSE Bind(GetItem(tl.sub, tl.part), LAMBDA g :
           IF ~g.ok THEN Fail(g.exc, g.msg, obj)
           ELSE IF path = from THEN Mutated(obj)
           ELSE IF IsMapping(tl.sub) /\ contains(path, from)
             THEN Fail("JsonPatchConflict", "Cannot move values into their own children", obj)
           ELSE Bind(AddOperation(obj, path, g.v), LAMBDA a :
                  IF ~a.ok THEN a ELSE RemoveOperation(a.doc, from))))

\* MoveOperation.apply
MoveOperation(obj, from, path) ==
  Bind(to_last(obj, from), LAMBDA tl :
    IF ~tl.ok THEN Fail(tl.exc, tl.msg, obj)
    ELSE Bind(GetItem(tl.sub, tl.part), LAMBDA g :
           IF ~g.ok THEN Fail(g.exc, g.msg, obj)
           ELSE IF path = from THEN Mutated(obj)
           ELSE IF IsMapping(tl.sub) /\ contains(path, from)
             THEN Fail("JsonPatchConflict", "Cannot move values into their own children", obj)
           ELSE Bind(RemoveOperation(obj, from), LAMBDA r :
                  IF ~r.ok THEN r ELSE AddOperation(r.doc, path, g.v))))

(***************************************************************************)
(* jsonpatch: JsonPatch and apply_patch                                    *)
(***************************************************************************)
\* JsonPatch.operations
KnownOps == {"add", "remove", "replace", "move", "copy", "test"}

\* operation.apply(obj) of the PatchOperation subclass that _get_operation
\* selects by the 'op' member
OperationApply(obj, op) ==
  CASE op.op = "add" -> AddOperation(obj, op.path, op.value)
    [] op.op = "remove" -> RemoveOperation(obj, op.path)
    [] op.op = "replace" -> ReplaceOperation(obj, op.path, op.value)
    [] op.op = "test" -> TestOperation(obj, op.path, op.value)
    [] op.op = "copy" -> CopyOperation(obj, op.from, op.path)
    [] op.op = "move" -> MoveOperation(obj, op.from, op.path)

RECURSIVE ApplyLoop(_, _, _, _, _)
\* The loop of JsonPatch.apply from operation i (1-based) on.  cur is the
\* working document, same tells whether cur is still the caller's object,
\* orig is the content of the caller's object.
ApplyLoop(cur, same, orig, ops, i) ==
  IF i > Len(ops) THEN [ok |-> TRUE, doc |-> cur, same |-> same, orig |-> orig]
  ELSE Bind(OperationApply(cur, ops[i]), LAMBDA r :
         IF ~r.ok
           THEN [ok |-> FALSE, exc |-> r.exc, msg |-> r.msg, index |-> i - 1,
                 orig |-> IF same THEN r.doc ELSE orig]
           ELSE ApplyLoop(r.doc, same /\ ~r.rebound,
                          IF same THEN r.left ELSE orig, ops, i + 1))

Reverse(s) == [i \in 1..Len(s) |-> s[Len(s) + 1 - i]]

\* JsonPatch.apply that runs the operations last to first
JsonPatchApply_mut(obj, ops, in_place) == ApplyLoop(obj, in_place, obj, Reverse(ops), 1)

\* JsonPatch.apply: deep-copies the document unless in_place
JsonPatchApply(obj, ops, in_place) == ApplyLoop(obj, in_place, obj, ops, 1)

\* jsonpatch.apply_patch: JsonPatch(patch) verifies every element through
\* _get_operation before anything is applied, then JsonPatch.apply runs
jsonpatch_apply_patch(doc, patch, in_place) ==
  IF \E i \in 1..Len(patch) : patch[i].op \notin KnownOps
    THEN [ok |-> FALSE, exc |-> "InvalidJsonPatch", msg |-> "Unknown operation",
          index |-> (CHOOSE i \in 1..Len(patch) :
                       /\ patch[i].op \notin KnownOps
                       /\ \A j \in 1..(i - 1) : patch[j].op \in KnownOps) - 1,
          orig |-> doc]
    ELSE JsonPatchApply(doc, patch, in_place)

(***************************************************************************)
(* app.py                                                                  *)
(***************************************************************************)
VARIABLES
  pc,        \* the node the graph runs next, "END", or "RAISED"
  state,     \* the graph state: a function from the keys that are set
  visited,   \* the nodes executed so far, in order
  resp,      \* the model response of this run, as json.loads returns it
  aliased    \* whether state["result"] is the same object as state["src"]

vars == <<pc, state, visited, resp, aliased>>

\* dict update: the channels a node returns overwrite the state's
Merge(st, upd) ==
  [k \in DOMAIN st \cup DOMAIN upd |-> IF k \in DOMAIN upd THEN upd[k] ELSE st[k]]

\* the error strings, by their fixed prefix and the interpolated detail
ErrValidation(err) == [prefix |-> "patch validation error", detail |-> err]
ErrGeneration(msg) == [prefix |-> "patch generation failed", detail |-> [text |-> msg]]
ErrNoPatch == [prefix |-> "no patch generated"]
ErrApply(msg) == [prefix |-> "patch apply failed", detail |-> [text |-> msg]]
ErrUnknownApply(msg) == [prefix |-> "unknown apply error", detail |-> [text |-> msg]]

None == [none |-> TRUE]

IsDict(e) == "nondict" \notin DOMAIN e

RECURSIVE validate_from(_, _)
\* the for loop of validate_patch_ops from element i (1-based) on
validate_from(elems, i) ==
  IF i > Len(elems) THEN None
  ELSE LET op == elems[i] IN
    IF ~IsDict(op) \/ "op" \notin DOMAIN op \/ "path" \notin DOMAIN op
      THEN [text |-> "needs at least 'op' and 'path'", index |-> i - 1]
    ELSE IF op.op \in {"add", "replace", "test"} /\ "value" \notin DOMAIN op
      THEN [text |-> "has no 'value'", index |-> i - 1, op |-> op.op]
    ELSE IF op.op \in {"move", "copy"} /\ "from" \notin DOMAIN op
      THEN [text |-> "has no 'from'", index |-> i - 1, op |-> op.op]
    ELSE validate_from(elems, i + 1)

\* validate_patch_ops that counts the elements from 1
validate_patch_ops_mut(ops) ==
  IF ~ops.islist THEN [text |-> "patch is not an array"]
  ELSE Bind(validate_from(ops.elems, 1), LAMBDA m :
         IF m = None THEN None ELSE [m EXCEPT !.index = @ + 1])

\* validate_patch_ops: None, or the message of the first violation
validate_patch_ops(ops) ==
  IF ~ops.islist THEN [text |-> "patch is not an array"]
  ELSE validate_from(ops.elems, 1)

\* generate_patch: the update it returns for a model response
generate_patch(st, r) ==
  IF r.kind = "exception"
    THEN [error |-> ErrGeneration("model call failed"), debug |-> "trace"]
  ELSE IF r.kind = "invalid_json"
    THEN [error |-> ErrGeneration("JSONDecodeError"), debug |-> "trace"]
  ELSE Bind(validate_patch_ops(r.ops), LAMBDA err :
    IF err # None
      THEN [error |-> ErrValidation(err), debug |-> "raw, cleaned"]
      ELSE [patch_ops |-> r.ops.elems, debug |-> "raw, cleaned"])

\* state.get("error") is truthy: every error string is non-empty
HasError(st) == "error" \in DOMAIN st
\* "patch_ops" in state, whatever its value
HasPatchOps_mut(st) == "patch_ops" \in DOMAIN st
\* state.get("patch_ops") is truthy: a non-empty list
HasPatchOps(st) == "patch_ops" \in DOMAIN st /\ st.patch_ops # <<>>

\* judge without the check for an empty patch
judge_mut(st) == st

\* judge: the update it returns
judge(st) ==
  IF HasError(st) THEN st
  ELSE IF ~HasPatchOps(st) THEN [error |-> ErrNoPatch]
  ELSE st

\* build_graph._route
_route(s) ==
  IF HasError(s) THEN "end"
  ELSE IF HasPatchOps(s) THEN "apply"
  ELSE "end"

\* patching the caller's document
in_place_mut == TRUE

\* the in_place argument apply_patch passes
in_place == FALSE

\* the call of jsonpatch.apply_patch in the apply node
LibCall(st) == jsonpatch_apply_patch(st.src, st.patch_ops, in_place)

\* apply_patch that hands back the document together with the error
apply_patch_mut(st) ==
  Bind(LibCall(st), LAMBDA r :
    IF r.ok THEN [result |-> r.doc]
    ELSE IF r.exc \in {"JsonPatchConflict", "JsonPointerException", "ValueError"}
      THEN [error |-> ErrApply(r.msg), result |-> st.src]
      ELSE [error |-> ErrUnknownApply(r.msg), result |-> st.src, debug |-> "trace"])

\* apply_patch: the update it returns
apply_patch(st) ==
  Bind(LibCall(st), LAMBDA r :
    IF r.ok THEN [result |-> r.doc]
    ELSE IF r.exc \in {"JsonPatchConflict", "JsonPointerException", "ValueError"}
      THEN [error |-> ErrApply(r.msg)]
      ELSE [error |-> ErrUnknownApply(r.msg), debug |-> "trace"])

(***************************************************************************)
(* The inputs: source documents and model responses                        *)
(***************************************************************************)
\* the longest operations list enumerated over SmallOps
MaxOps == 2

default_json ==
  Obj([name |-> Str("Alice"),
       age |-> Num(20),
       tags |-> Arr(<<Str("x"), Str("y")>>),
       profile |-> Obj([city |-> Str("Seoul")])])

NestedDoc ==
  Obj([name |-> Str("Bob"),
       tags |-> Arr(<<Obj([x |-> Num(1)]), Obj([city |-> Str("Seoul")])>>),
       profile |-> Obj(EmptyMap)])

Docs == {default_json, NestedDoc, Obj(EmptyMap)}

Pointers ==
  { <<>>, <<"name">>, <<"age">>, <<"tags">>, <<"profile">>, <<"x">>,
    <<"tags", "0">>, <<"tags", "1">>, <<"tags", "-">>, <<"tags", "5">>,
    <<"profile", "city">>, <<"profile", "age">>,
    <<"tags", "0", "x">>, <<"name", "0">>, <<"age", "x">> }

Values == {Str("Bob"), Str("z"), Num(20)}

SingleOps ==
  {[op |-> "add", path |-> p, value |-> v] : p \in Pointers, v \in Values}
  \cup {[op |-> "replace", path |-> p, value |-> v] : p \in Pointers, v \in Values}
  \cup {[op |-> "test", path |-> p, value |-> v] : p \in Pointers, v \in Values}
  \cup {[op |-> "remove", path |-> p] : p \in Pointers}
  \cup {[op |-> "move", from |-> a, path |-> b] : a \in Pointers, b \in Pointers}
  \cup {[op |-> "copy", from |-> a, path |-> b] : a \in Pointers, b \in Pointers}

\* the instruction app.py pre-fills, as a patch
DemoOps ==
  << [op |-> "replace", path |-> <<"name">>, value |-> Str("Bob")],
     [op |-> "add", path |-> <<"tags", "-">>, value |-> Str("z")],
     [op |-> "move", from |-> <<"age">>, path |-> <<"profile", "age">>] >>

\* well-formed and malformed elements for the longer lists
SmallOps ==
  { DemoOps[1], DemoOps[2], DemoOps[3],
    [op |-> "remove", path |-> <<"tags", "5">>],
    [op |-> "remove", path |-> <<"tags", "0">>],
    [op |-> "test", path |-> <<"name">>, value |-> Str("Alice")],
    [op |-> "add", path |-> <<"tags", "1">>, value |-> Str("z")],
    [op |-> "add", path |-> <<"x">>],
    [op |-> "move", path |-> <<"x">>],
    [path |-> <<"x">>],
    [op |-> "remove"],
    [nondict |-> "string"],
    [op |-> "foo", path |-> <<"x">>] }

SeqsUpTo(S, n) == UNION {[1..k -> S] : k \in 0..n}

OpLists == {<<o>> : o \in SingleOps} \cup SeqsUpTo(SmallOps, MaxOps) \cup {DemoOps}

NotAList == [islist |-> FALSE, elems |-> <<>>]
AList(l) == [islist |-> TRUE, elems |-> l]

\* what the model call and json.loads can give generate_patch
Responses ==
  {[kind |-> "exception", ops |-> NotAList],
   [kind |-> "invalid_json", ops |-> NotAList],
   [kind |-> "value", ops |-> NotAList]}
  \cup {[kind |-> "value", ops |-> AList(l)] : l \in OpLists}

NoResponse == [kind |-> "none", ops |-> NotAList]

(***************************************************************************)
(* The run of app.py's graph: graph.invoke(init_state)                     *)
(***************************************************************************)
Init ==
  /\ pc = "generate"
  /\ \E d \in Docs : state = [instruction |-> "edit", src |-> d]
  /\ visited = <<>>
  /\ resp \in Responses
  /\ aliased = FALSE

GeneratePatch ==
  /\ pc = "generate"
  /\ state' = Merge(state, generate_patch(state, resp))
  /\ visited' = Append(visited, "generate")
  /\ pc' = "judge"
  /\ UNCHANGED <<resp, aliased>>

Judge ==
  /\ pc = "judge"
  /\ state' = Merge(state, judge(state))
  /\ visited' = Append(visited, "judge")
  /\ pc' = IF _route(state') = "apply" THEN "apply" ELSE "END"
  /\ UNCHANGED <<resp, aliased>>

ApplyPatch ==
  /\ pc = "apply"
  /\ \E r \in {LibCall(state)} :
       /\ state' = Merge([state EXCEPT !.src = r.orig], apply_patch(state))
       /\ aliased' = (r.ok /\ r.same)
  /\ visited' = Append(visited, "apply")
  /\ pc' = "END"
  /\ UNCHANGED resp

Next == GeneratePatch \/ Judge \/ ApplyPatch

Spec == Init /\ [][Next]_vars

\* the graph runs the node that is scheduled
FairSpec == Spec /\ WF_vars(Next)

(***************************************************************************)
(* test.py: the MCP pipeline.  Every node asks the agent, whose last       *)
(* message is an input; the edges are unconditional.                       *)
(***************************************************************************)
McpOpLists ==
  { <<>>, DemoOps,
    <<[op |-> "remove", path |-> <<"tags", "5">>]>>,
    <<[op |-> "add", path |-> <<"x">>]>>,
    <<[op |-> "foo", path |-> <<"x">>]>> }

\* the agent's last message in generate_json_patch: JSON with "ops", "raw"
\* and "cleaned", or something json.loads or the subscripts raise on
McpGenerateReplies ==
  {[kind |-> "exception", ops |-> NotAList]}
  \cup {[kind |-> "value", ops |-> AList(l)] : l \in McpOpLists}

\* the agent's last message in validate_json_patch
McpValidateReplies == {"true", "false", "ok: false, error: invalid patch"}

InvalidJSON == [t |-> "invalid"]

DemoResult ==
  Obj([name |-> Str("Bob"),
       tags |-> Arr(<<Str("x"), Str("y"), Str("z")>>),
       profile |-> Obj([city |-> Str("Seoul"), age |-> Num(20)])])

\* the agent's last message in apply_json_patch, parsed by json.loads
McpApplyReplies == Docs \cup {DemoResult, InvalidJSON}

InitMCP ==
  /\ pc = "mcp_generate"
  /\ \E d \in Docs : state = [instruction |-> "edit", src |-> d]
  /\ visited = <<>>
  /\ resp = NoResponse
  /\ aliased = FALSE

\* generate_json_patch
generate_json_patch ==
  /\ pc = "mcp_generate"
  /\ \E r \in McpGenerateReplies :
       /\ resp' = r
       /\ IF r.kind = "exception"
            THEN /\ pc' = "RAISED"
                 /\ state' = state
            ELSE /\ pc' = "mcp_validate"
                 /\ state' = Merge(state, [ops |-> r.ops.elems, debug |-> "raw, cleaned"])
  /\ visited' = Append(visited, "mcp_generate")
  /\ UNCHANGED aliased

\* validate_json_patch; the edge to the apply node does not look at the state
validate_json_patch ==
  /\ pc = "mcp_validate"
  /\ \E content \in McpValidateReplies :
       state' = IF content = "true" THEN state
                ELSE Merge(state, [error |-> [text |-> content]])
  /\ visited' = Append(visited, "mcp_validate")
  /\ pc' = "mcp_apply"
  /\ UNCHANGED <<resp, aliased>>

\* apply_json_patch
apply_json_patch ==
  /\ pc = "mcp_apply"
  /\ \E content \in McpApplyReplies :
       IF content = InvalidJSON
         THEN /\ pc' = "RAISED"
              /\ state' = state
         ELSE /\ pc' = "END"
              /\ state' = Merge(state, [result |-> content])
  /\ visited' = Append(visited, "mcp_apply")
  /\ UNCHANGED <<resp, aliased>>

NextMCP == generate_json_patch \/ validate_json_patch \/ apply_json_patch

SpecMCP == InitMCP /\ [][NextMCP]_vars

(***************************************************************************)
(* Helpers of the properties                                               *)
(***************************************************************************)
Range(s) == {s[i] : i \in 1..Len(s)}

Ran(node) == node \in Range(visited)

\* an element structural validation must reject, in the words of the spec
Offending(e) ==
  \/ ~IsDict(e)
  \/ "op" \notin DOMAIN e
  \/ "path" \notin DOMAIN e
  \/ (e.op \in {"add", "replace", "test"} /\ "value" \notin DOMAIN e)
  \/ (e.op \in {"move", "copy"} /\ "from" \notin DOMAIN e)

FirstOffending(elems) ==
  CHOOSE i \in 1..Len(elems) :
    Offending(elems[i]) /\ \A j \in 1..(i - 1) : ~Offending(elems[j])

Malformed(ops) == ~ops.islist \/ \E i \in 1..Len(ops.elems) : Offending(ops.elems[i])

GotValue == pc # "generate" /\ resp.kind = "value"

StrictPrefix(a, b) == Len(a) < Len(b) /\ SubSeq(b, 1, Len(a)) = a

\* the update the apply node returns for the source document and other ops
ApplyOf(ops) == apply_patch([src |-> state.src, patch_ops |-> ops])

Applied == pc = "END" /\ Ran("apply")

(***************************************************************************)
(* Properties                                                              *)
(***************************************************************************)

\* C1: a non-list operations value, or a list with an element that is not a
\* mapping with 'op' and 'path', or an add/replace/test without 'value', or a
\* move/copy without 'from', fails validation in generate_patch; the error
\* names the 0-based index of the first offending element of a list; no
\* patch_ops is stored, the apply node never runs and no result is set.
C1_MalformedRejected ==
  (GotValue /\ Malformed(resp.ops)) =>
    /\ HasError(state)
    /\ state.error.prefix = "patch validation error"
    /\ IF resp.ops.islist
         THEN /\ "index" \in DOMAIN state.error.detail
              /\ state.error.detail.index = FirstOffending(resp.ops.elems) - 1
         ELSE state.error.detail = [text |-> "patch is not an array"]
    /\ "patch_ops" \notin DOMAIN state
    /\ "result" \notin DOMAIN state
    /\ pc # "apply"
    /\ ~Ran("apply")

\* a list whose second element is the first offending one has been rejected
C1_Witness ==
  /\ pc = "END"
  /\ resp.kind = "value"
  /\ resp.ops.islist
  /\ Malformed(resp.ops)
  /\ FirstOffending(resp.ops.elems) = 2
  /\ state.error.detail.index = 1

\* C2 (as claimed): a list with an element whose 'op' is none of the six
\* kinds is rejected by structural validation before the apply node runs.
C2_UnknownOpRejected ==
  (/\ GotValue
   /\ resp.ops.islist
   /\ \E i \in 1..Len(resp.ops.elems) :
        LET e == resp.ops.elems[i] IN
          IsDict(e) /\ "op" \in DOMAIN e /\ e.op \notin KnownOps)
  => /\ HasError(state)
     /\ state.error.prefix = "patch validation error"
     /\ pc # "apply"
     /\ ~Ran("apply")

\* C3 (as claimed): a run whose operations list is empty ends with a result
\* deep-equal to src and no error.
C3_EmptyOpsSucceeds ==
  (pc = "END" /\ resp.kind = "value" /\ resp.ops = AList(<<>>)) =>
    /\ ~HasError(state)
    /\ "result" \in DOMAIN state
    /\ state.result = state.src

\* C3 (amended): the patch library applied to the empty list returns a
\* document deep-equal to src, but the run never applies it: judge reports
\* "no patch generated", the run ends after judge with that error, without
\* the apply node and without a result.
C3_EmptyOpsRejectedByJudge ==
  (pc \in {"apply", "END"} /\ resp.kind = "value" /\ resp.ops = AList(<<>>)) =>
    /\ pc = "END"
    /\ visited = <<"generate", "judge">>
    /\ HasError(state)
    /\ state.error = ErrNoPatch
    /\ "result" \notin DOMAIN state
    /\ ApplyOf(<<>>) = [result |-> state.src]

C3_Witness ==
  /\ pc = "END"
  /\ resp.kind = "value"
  /\ resp.ops = AList(<<>>)
  /\ state.src = default_json
  /\ state.error = ErrNoPatch

\* C4: the final state never holds both an error and a result; when
\* operation k is the first to fail (the operations before it apply, the
\* list up to it does not) the run ends with an error only, which for a list
\* of known kinds is the error of operation k.
C4_Atomic ==
  /\ ~(HasError(state) /\ "result" \in DOMAIN state)
  /\ Applied =>
       \A k \in 1..Len(state.patch_ops) :
         (/\ "result" \in DOMAIN ApplyOf(SubSeq(state.patch_ops, 1, k - 1))
          /\ "error" \in DOMAIN ApplyOf(SubSeq(state.patch_ops, 1, k)))
         => /\ HasError(state)
            /\ "result" \notin DOMAIN state
            /\ (\A j \in 1..Len(state.patch_ops) : state.patch_ops[j].op \in KnownOps)
               => state.error = ApplyOf(SubSeq(state.patch_ops, 1, k)).error

\* the second operation failed after the first had changed the working copy
C4_Witness ==
  /\ Applied
  /\ Len(state.patch_ops) = 2
  /\ "result" \in DOMAIN ApplyOf(SubSeq(state.patch_ops, 1, 1))
  /\ ApplyOf(SubSeq(state.patch_ops, 1, 1)).result # state.src
  /\ HasError(state)

\* C5: no step changes state["src"], and the result is never the same
\* object as src.
C5_SrcUnchanged == [][state'.src = state.src /\ ~aliased']_vars

\* a patch was applied and produced a document that differs from src
C5_Witness ==
  /\ Applied
  /\ "result" \in DOMAIN state
  /\ state.result # state.src
  /\ Len(state.patch_ops) = 2

C7_Sequential ==
  /\ (Applied /\ Len(state.patch_ops) >= 2) =>
       LET front == ApplyOf(Front(state.patch_ops)) IN
         IF "result" \in DOMAIN front
           THEN LET last == apply_patch([src |-> front.result,
                                         patch_ops |-> <<Last(state.patch_ops)>>]) IN
                  IF "result" \in DOMAIN last
                    THEN "result" \in DOMAIN state /\ state.result = last.result
                    ELSE HasError(state) /\ "result" \notin DOMAIN state
           ELSE HasError(state) /\ "result" \notin DOMAIN state
  /\ (Applied /\ state.src = default_json /\ state.patch_ops = DemoOps) =>
       /\ "result" \in DOMAIN state
       /\ state.result = DemoResult
       /\ "age" \notin DOMAIN state.result.o

C7_Witness ==
  /\ Applied
  /\ state.src = default_json
  /\ state.patch_ops = DemoOps
  /\ state.result = DemoResult

\* pointer A resolves to a value of doc (resolve of the spec)
Resolves(doc, A) == walk_all(doc, A).ok /\ walk_all(doc, A).v # EndOfList

\* pointer A reads as a member of a container (subobj[part] succeeds)
ReadsMember(doc, A) ==
  /\ to_last(doc, A).ok
  /\ GetItem(to_last(doc, A).sub, to_last(doc, A).part).ok

MemberOfMapping(doc, A) ==
  /\ A # <<>>
  /\ to_last(doc, A).ok
  /\ IsMapping(to_last(doc, A).sub)

SingleMove ==
  /\ Applied
  /\ Len(state.patch_ops) = 1
  /\ state.patch_ops[1].op = "move"

CopyThenRemove(A, B) ==
  <<[op |-> "copy", from |-> A, path |-> B], [op |-> "remove", path |-> A]>>

C9_ValidationGatesApply ==
  (Ran("mcp_validate") /\ HasError(state)) =>
    /\ pc # "mcp_apply"
    /\ ~Ran("mcp_apply")
    /\ "result" \notin DOMAIN state

C10_Safe ==
  /\ \E n \in 0..3 : visited = SubSeq(<<"generate", "judge", "apply">>, 1, n)
  /\ pc = "END" =>
       /\ Len(visited) >= 2
       /\ HasError(state) # ("result" \in DOMAIN state)
  /\ (pc = "apply" \/ Ran("apply")) =>
       /\ resp.kind = "value"
       /\ resp.ops.islist
       /\ resp.ops.elems # <<>>
       /\ validate_patch_ops(resp.ops) = None
       /\ state.patch_ops = resp.ops.elems

\* C10: every run executes generate, judge and possibly apply, each at most
\* once and in that order, reaches END, and ends with exactly one of error
\* and result; apply runs only on a non-empty validated patch_ops.
C10_RunShape == []C10_Safe /\ <>(pc = "END")

C10_Witness ==
  /\ pc = "END"
  /\ resp.kind = "invalid_json"
  /\ visited = <<"generate", "judge">>
  /\ HasError(state)
  /\ "result" \notin DOMAIN state

====
